---- MODULE Spec2Model ----
(***************************************************************************)
(* A model of the TrueCoach API client (package truecoach) and of its      *)
(* example program.  Four specifications share the variables:              *)
(*   Spec         any caller using one Client (Login, GetUserProfile,      *)
(*                GetHabitTrackers in any order, any arguments);           *)
(*   SpecMain     the example program's main;                              *)
(*   SpecClientID ClientID.UnmarshalJSON applied to a target;              *)
(*   SpecTracking encoding/json decoding one HabitTrackerTracking.         *)
(***************************************************************************)
EXTENDS Integers, Sequences, FiniteSets, TLC

VARIABLES
    client,     \* the Client: its resty client's base URL and headers
    call,       \* the last operation called and its arguments
    exch,       \* the outcome of that call's HTTP exchange
    wire,       \* the requests sent on the wire during that call
    ret,        \* what the call returned: (result, error)
    seen,       \* history: the tokens callers passed in or Login returned
    pc,         \* main: position in the example program
    env,        \* main: the process environment
    token,      \* main: Login's result
    profile,    \* main: GetUserProfile's result
    sent,       \* main: every request the program has issued, in order
    exitCode,   \* main: the exit status (-1 while running)
    cid,        \* the target *ClientID of UnmarshalJSON
    cidData,    \* the last data given to UnmarshalJSON
    cidErr,     \* the error UnmarshalJSON returned
    trkWire,    \* the JSON object of one tracking entry
    trk,        \* the HabitTrackerTracking decoded from it
    trkErr      \* the decoder's error

apiVars == <<client, call, exch, wire, ret, seen>>
mainVars == <<pc, env, token, profile, sent, exitCode>>
cidVars == <<cid, cidData, cidErr>>
trkVars == <<trkWire, trk, trkErr>>
vars == <<client, call, exch, wire, ret, seen, pc, env, token, profile, sent,
          exitCode, cid, cidData, cidErr, trkWire, trk, trkErr>>

----------------------------------------------------------------------------
(* Bounds of the model. *)

\* number literals 0..MaxSmallID are decoded
MaxSmallID == 12
\* number literals 2^53 .. 2^53 + MaxBigOffset are decoded
MaxBigOffset == 5
\* a tracking entry carries at most this many optional-metric keys
MaxSetKeys == 2
\* a habit_trackers response carries at most this many trackings
MaxTrackings == 2

\* float64 has a 53-bit significand (json decodes a number into float64)
MantissaBits == 53

NoError == "nil"

----------------------------------------------------------------------------
(* Decimal literals as digit sequences, most significant digit first.  The *)
(* identifiers exceed TLC's integers, so float64 is computed on limbs;     *)
(* the model decodes integers below 10^18.                                 *)

DigitText == <<"0", "1", "2", "3", "4", "5", "6", "7", "8", "9">>

RECURSIVE Text(_)
Text(d) == IF d = <<>> THEN "" ELSE Text(SubSeq(d, 1, Len(d) - 1)) \o DigitText[d[Len(d)] + 1]

RECURSIVE NatDigits(_)
NatDigits(n) == IF n < 10 THEN <<n>> ELSE Append(NatDigits(n \div 10), n % 10)

RECURSIVE DigitsNat(_)
DigitsNat(d) == IF d = <<>> THEN 0 ELSE 10 * DigitsNat(SubSeq(d, 1, Len(d) - 1)) + d[Len(d)]

\* An integer below 10^18 as three limbs of six decimal digits,
\* a * 10^12 + b * 10^6 + c.
Limb == 10 ^ 6

PadTo(d, n) == [i \in 1..n |-> IF i <= n - Len(d) THEN 0 ELSE d[i - (n - Len(d))]]

Limbs(d) ==
    LET p == PadTo(d, 18)
    IN [a |-> DigitsNat(SubSeq(p, 1, 6)), b |-> DigitsNat(SubSeq(p, 7, 12)),
        c |-> DigitsNat(SubSeq(p, 13, 18))]

LimbDigits(v) ==
    IF v.a > 0 THEN NatDigits(v.a) \o PadTo(NatDigits(v.b), 6) \o PadTo(NatDigits(v.c), 6)
    ELSE IF v.b > 0 THEN NatDigits(v.b) \o PadTo(NatDigits(v.c), 6)
    ELSE NatDigits(v.c)

\* v + n, for a small n of either sign
Plus(v, n) ==
    LET c == v.c + n
        cc == IF c >= Limb THEN 1 ELSE IF c < 0 THEN -1 ELSE 0
        b == v.b + cc
        cb == IF b >= Limb THEN 1 ELSE IF b < 0 THEN -1 ELSE 0
    IN [a |-> v.a + cb, b |-> b - cb * Limb, c |-> c - cc * Limb]

\* v * m, for a small m
Times(v, m) ==
    LET c == v.c * m
        b == v.b * m + c \div Limb
    IN [a |-> v.a * m + b \div Limb, b |-> b % Limb, c |-> c % Limb]

\* 2^k
RECURSIVE Pow2(_)
Pow2(k) == IF k < 10 THEN [a |-> 0, b |-> 0, c |-> 2 ^ k] ELSE Times(Pow2(k - 10), 2 ^ 10)

AtLeast(v, w) ==
    \/ v.a > w.a
    \/ v.a = w.a /\ v.b > w.b
    \/ v.a = w.a /\ v.b = w.b /\ v.c >= w.c

\* v modulo m, for a small m
Mod(v, m) ==
    LET l == Limb % m
    IN ((v.a % m) * ((l * l) % m) + (v.b % m) * l + (v.c % m)) % m

\* how many bits v, of 53 bits or more, has beyond the significand's
ExtraBits(v) ==
    CHOOSE k \in 0..7 :
        /\ k > 0 => AtLeast(v, Pow2(MantissaBits + k - 1))
        /\ ~AtLeast(v, Pow2(MantissaBits + k))

\* v rounded to a multiple of step, a tie to the even multiple
RoundTo(v, step) ==
    LET r == Mod(v, step)
        up == 2 * r > step \/ (2 * r = step /\ Mod(v, 2 * step) >= step)
    IN Plus(v, (IF up THEN step ELSE 0) - r)

RoundLimbs(v) ==
    IF ~AtLeast(v, Pow2(MantissaBits)) THEN v ELSE RoundTo(v, 2 ^ ExtraBits(v))

\* the integer nearest to d that a float64 holds, ties to even
\* (strconv.ParseFloat of an integer literal): with n significant bits,
\* the value is rounded to a multiple of 2^(n - 53)
RoundFloat64(d) == LimbDigits(RoundLimbs(Limbs(d)))

----------------------------------------------------------------------------
(* JSON values as they arrive on the wire.  kind "missing" is an object    *)
(* key that is not there, kind "invalid" is bytes that are not JSON.       *)

WireVal(k, t, n, d, f) == [kind |-> k, text |-> t, neg |-> n, digits |-> d, frac |-> f]
Missing == WireVal("missing", "", FALSE, <<>>, <<>>)
Invalid == WireVal("invalid", "", FALSE, <<>>, <<>>)
Null == WireVal("null", "null", FALSE, <<>>, <<>>)
Bool(t) == WireVal("bool", t, FALSE, <<>>, <<>>)
Str(s) == WireVal("string", s, FALSE, <<>>, <<>>)
Arr(t) == WireVal("array", t, FALSE, <<>>, <<>>)
Obj(t) == WireVal("object", t, FALSE, <<>>, <<>>)
\* the number literal [-]digits[.frac]
Num(n, d, f) == WireVal("number", "", n, d, f)
IntLit(n) == Num(FALSE, NatDigits(n), <<>>)

\* the text of a number literal
LiteralText(w) ==
    (IF w.neg THEN "-" ELSE "") \o Text(w.digits)
        \o (IF w.frac = <<>> THEN "" ELSE "." \o Text(w.frac))

IsInteger(w) == w.kind = "number" /\ w.frac = <<>>

\* json.Unmarshal of a number into interface{}: strconv.ParseFloat(s, 64).
\* An integer literal is rounded to the nearest float64.  A literal with a
\* fraction is kept as it is: the model decodes fractions only beside an
\* integer part far below 2^53, where float64's error does not reach the
\* rounding FormatFloat does next.
ParseFloat(w) ==
    [neg |-> w.neg,
     mag |-> IF w.frac = <<>> THEN RoundFloat64(w.digits) ELSE w.digits,
     frac |-> w.frac]

\* strconv.FormatFloat(v, 'f', 0, 64): no fraction digits, round half to even
FormatFloat(v) ==
    LET f == v.frac
        tie == f[1] = 5 /\ \A i \in 2..Len(f) : f[i] = 0
        up == IF f = <<>> THEN FALSE
              ELSE IF tie THEN v.mag[Len(v.mag)] % 2 = 1
              ELSE f[1] >= 5
        m == IF up THEN NatDigits(DigitsNat(v.mag) + 1) ELSE v.mag
    IN (IF v.neg THEN "-" ELSE "") \o Text(m)

\* fmt's %T of the value json.Unmarshal stores in an interface{}
GoTypeName(w) ==
    CASE w.kind = "bool" -> "bool"
      [] w.kind = "array" -> "[]interface {}"
      [] w.kind = "object" -> "map[string]interface {}"
      [] w.kind = "null" -> "<nil>"
      [] w.kind = "string" -> "string"
      [] w.kind = "number" -> "float64"

SyntaxError == "json: syntax error"
ExpectedStringOrNumber == "user_id: expected string or number, got "

\* a plausible slip: null treated as a no-op, as encoding/json's convention has it
UnmarshalJSON_NullNoop(c, data) ==
    CASE data.kind = "invalid" -> [c |-> c, err |-> SyntaxError]
      [] data.kind = "string" -> [c |-> data.text, err |-> NoError]
      [] data.kind = "number" -> [c |-> FormatFloat(ParseFloat(data)), err |-> NoError]
      [] data.kind = "null" -> [c |-> c, err |-> NoError]
      [] OTHER -> [c |-> c, err |-> ExpectedStringOrNumber \o GoTypeName(data)]

\* func (c *ClientID) UnmarshalJSON(data []byte) error: the target after the
\* call and the error returned
UnmarshalJSON(c, data) ==
    CASE data.kind = "invalid" -> [c |-> c, err |-> SyntaxError]
      [] data.kind = "string" -> [c |-> data.text, err |-> NoError]
      [] data.kind = "number" -> [c |-> FormatFloat(ParseFloat(data)), err |-> NoError]
      [] OTHER -> [c |-> c, err |-> ExpectedStringOrNumber \o GoTypeName(data)]

----------------------------------------------------------------------------
(* The identifiers the model decodes. *)

SampleIDs == {77, 12345}

\* 2^53 + k
Pow53Plus(k) == LimbDigits(Plus(Pow2(MantissaBits), k))

IDIntegers ==
    {Num(n, NatDigits(m), <<>>) : n \in BOOLEAN, m \in (0..MaxSmallID) \cup SampleIDs}
        \cup {Num(FALSE, Pow53Plus(k), <<>>) : k \in 0..MaxBigOffset}

IDFractions ==
    {Num(FALSE, NatDigits(m), f) : m \in {0, 1, 2, 70}, f \in {<<5>>, <<2, 5>>, <<7, 5>>}}

IDStrings ==
    {Str(s) : s \in {"", "abc"}} \cup {Str(LiteralText(w)) : w \in IDIntegers}

IDOthers == {Bool("true"), Bool("false"), Arr("[1]"), Obj("{}"), Null, Invalid}

IDData == IDIntegers \cup IDFractions \cup IDStrings \cup IDOthers

NoData == WireVal("none", "", FALSE, <<>>, <<>>)

InitClientID == cid = "" /\ cidData = NoData /\ cidErr = NoError

\* one call of (&cid).UnmarshalJSON(data)
Unmarshal ==
    \E data \in IDData :
        LET r == UnmarshalJSON(cid, data)
        IN /\ cid' = r.c
           /\ cidErr' = r.err
           /\ cidData' = data
           /\ UNCHANGED <<apiVars, mainVars, trkVars>>

----------------------------------------------------------------------------
(* encoding/json decoding a JSON object into a Go struct, field by field.  *)
(* A Go field's value: set is FALSE for a nil pointer; a number is held as *)
(* sign, integer digits and fraction digits, a string in str.              *)

GoVal(p, n, m, f, s) == [set |-> p, neg |-> n, mag |-> m, frac |-> f, str |-> s]
NilPtr == GoVal(FALSE, FALSE, <<>>, <<>>, "")
NumVal(v) == GoVal(TRUE, v.neg, v.mag, v.frac, "")
StrVal(s) == GoVal(TRUE, FALSE, <<>>, <<>>, s)
BoolVal(t) == GoVal(TRUE, FALSE, <<>>, <<>>, t)
ZeroInt == GoVal(TRUE, FALSE, <<0>>, <<>>, "")

IsPointer(type) == type \in {"*float64", "*int", "*string"}

ZeroOf(type) ==
    CASE IsPointer(type) -> NilPtr
      [] type = "int" -> ZeroInt
      [] type \in {"string", "ClientID"} -> StrVal("")
      [] type = "bool" -> BoolVal("false")
      [] type = "map" -> NilPtr

\* the zero value of a struct
Zero(shape) == [k \in DOMAIN shape |-> ZeroOf(shape[k])]

TypeError == "json: cannot unmarshal value into Go struct field"

\* a plausible slip: the optional field declared without its pointer, so that
\* a missing or null key reads as a recorded zero
DecodeField_NoPointer(type, w) ==
    LET base == IF type = "*float64" THEN "float64"
                ELSE IF type = "*int" THEN "int"
                ELSE IF type = "*string" THEN "string" ELSE type
        zero == IF base = "string" THEN StrVal("") ELSE ZeroInt
    IN CASE w.kind \in {"missing", "null"} -> [val |-> zero, err |-> NoError]
         [] w.kind = "number" /\ base = "float64" ->
                [val |-> NumVal(ParseFloat(w)), err |-> NoError]
         [] w.kind = "number" /\ base = "int" /\ w.frac = <<>> ->
                [val |-> NumVal([neg |-> w.neg, mag |-> w.digits, frac |-> <<>>]),
                 err |-> NoError]
         [] w.kind = "string" /\ base = "string" ->
                [val |-> StrVal(w.text), err |-> NoError]
         [] OTHER -> [val |-> zero, err |-> TypeError]

\* a field of type ClientID after its UnmarshalJSON returned r
Unmarshaled(r) == [val |-> StrVal(r.c), err |-> r.err]

\* the value one struct field of Go type `type` takes from the wire value w
\* of its key, starting from the zero value, and the decoder's error
DecodeField(type, w) ==
    CASE w.kind = "missing" -> [val |-> ZeroOf(type), err |-> NoError]
      [] type = "ClientID" ->
             \* a json.Unmarshaler is called for every value, null included
             Unmarshaled(UnmarshalJSON("", w))
      [] w.kind = "null" -> [val |-> ZeroOf(type), err |-> NoError]
      [] w.kind = "number" /\ type \in {"*float64"} ->
             [val |-> NumVal(ParseFloat(w)), err |-> NoError]
      [] w.kind = "number" /\ type \in {"int", "*int"} /\ w.frac = <<>> ->
             [val |-> NumVal([neg |-> w.neg, mag |-> w.digits, frac |-> <<>>]),
              err |-> NoError]
      [] w.kind = "string" /\ type \in {"string", "*string"} ->
             [val |-> StrVal(w.text), err |-> NoError]
      [] w.kind = "bool" /\ type = "bool" ->
             [val |-> BoolVal(w.text), err |-> NoError]
      [] w.kind = "object" /\ type = "map" ->
             [val |-> StrVal(w.text), err |-> NoError]
      [] OTHER -> [val |-> ZeroOf(type), err |-> TypeError]

\* type HabitTrackerTracking struct: json key |-> Go type
HabitTrackerTracking ==
    [id |-> "int", calories |-> "*float64", date |-> "string",
     protein |-> "*float64", carbs |-> "*float64", fat |-> "*float64",
     weight |-> "*float64", sleep |-> "*float64", steps |-> "*int",
     energy |-> "*float64", hunger |-> "*float64", stress |-> "*float64",
     notes |-> "*string", client_id |-> "int", created_at |-> "string",
     updated_at |-> "string"]

Metrics ==
    {"calories", "protein", "carbs", "fat", "weight", "sleep", "steps",
     "energy", "hunger", "stress", "notes"}

\* the struct and the error from the fields' results f
Collect(shape, f) ==
    [val |-> [k \in DOMAIN shape |-> f[k].val],
     err |-> IF \E k \in DOMAIN shape : f[k].err # NoError
             THEN CHOOSE e \in {f[k].err : k \in DOMAIN shape} : e # NoError
             ELSE NoError]

\* a struct decoded from the object obj (json key |-> wire value): every
\* field is decoded, and an error met on the way is returned at the end
\* (which one, when several keys offend, follows the body's key order and is
\* not modelled)
DecodeStruct(shape, obj) ==
    Collect(shape, [k \in DOMAIN shape |-> DecodeField(shape[k], obj[k])])

DecodeTracking(obj) == DecodeStruct(HabitTrackerTracking, obj)

----------------------------------------------------------------------------
(* The tracking entries the model decodes. *)

MetricWire ==
    {Null, IntLit(0), IntLit(5000), Num(FALSE, <<7, 0>>, <<5>>), Str(""), Str("felt good")}

\* an entry of the given id whose only optional keys are those of m
Entry(id, m) ==
    [k \in DOMAIN HabitTrackerTracking |->
        CASE k \in DOMAIN m -> m[k]
          [] k \in {"id"} -> IntLit(id)
          [] k = "client_id" -> IntLit(77)
          [] k \in {"date", "created_at", "updated_at"} -> Str("2026-02-01")
          [] OTHER -> Missing]

EmptyObject(shape) == [k \in DOMAIN shape |-> Missing]

\* the entries with at most MaxSetKeys optional keys
TrackingEntries ==
    UNION {{Entry(1, m) : m \in [ks -> MetricWire]} :
              ks \in {q \in SUBSET Metrics : Cardinality(q) <= MaxSetKeys}}

Pending == "pending"

\* before any decoding: a fresh (zero) HabitTrackerTracking
IdleTracking ==
    /\ trkWire = EmptyObject(HabitTrackerTracking)
    /\ trk = Zero(HabitTrackerTracking)
    /\ trkErr = Pending

\* an entry arrives, to be decoded into a fresh HabitTrackerTracking
InitTracking ==
    /\ trkWire \in TrackingEntries
    /\ trk = Zero(HabitTrackerTracking)
    /\ trkErr = Pending

\* json.Unmarshal of the entry into the fresh HabitTrackerTracking
DecodeEntry ==
    /\ trkErr = Pending
    /\ LET r == DecodeTracking(trkWire)
       IN /\ trk' = r.val
          /\ trkErr' = r.err
    /\ UNCHANGED <<trkWire, apiVars, mainVars, cidVars>>

----------------------------------------------------------------------------
(* The client and its requests. *)

apiBaseURL == "https://api.truecoach.co/api"
userAgent == "okhttp/4.12.0"
accept == "application/json"
contentType == "application/json; charset=utf-8"
role == "Client"
acceptEncoding == "gzip"

EmptyMap == [k \in {} |-> ""]

\* resty.New() with the base URL and the five headers set on the client
NewClient ==
    [baseURL |-> apiBaseURL,
     headers |-> ("User-Agent" :> userAgent) @@ ("Accept" :> accept)
                    @@ ("Content-Type" :> contentType) @@ ("Role" :> role)
                    @@ ("Accept-Encoding" :> acceptEncoding)]

\* c.httpClient.R(): a fresh request
R == [method |-> "", path |-> "", query |-> EmptyMap, headers |-> EmptyMap,
      body |-> EmptyMap]

\* what goes on the wire for request r of client c: the client's base URL
\* and headers, the request's own headers over them
Outbound(c, r) ==
    [method |-> r.method,
     url |-> c.baseURL \o r.path,
     query |-> r.query,
     headers |-> r.headers @@ c.headers,
     body |-> r.body]

\* HTTP 2xx (resty's Response.IsSuccess)
IsSuccess(status) == status > 199 /\ status < 300

\* The outcome of Get/Post for exchange x with SetResult(target): a
\* transport failure is the error; the body of a 2xx response is decoded
\* into the target; any other response leaves the target as it was and is
\* no error.
Execute(x, target, decoded) ==
    IF x.kind = "error" THEN [result |-> target, err |-> x.err]
    ELSE IF IsSuccess(x.status)
         THEN [result |-> decoded.val, err |-> decoded.err]
         ELSE [result |-> target, err |-> NoError]

\* the (result, error) pair an operation returns after Execute gave r: nil
\* and the error, or the result and nil; with the client after the call and
\* the requests it sent
Return(c, reqs, r) ==
    [client |-> c, reqs |-> reqs, nil |-> r.err # NoError, res |-> r.result,
     err |-> r.err]

\* type TokenResponse struct
TokenResponse == [access_token |-> "string", token_type |-> "string", user_id |-> "ClientID"]

\* type UserProfile struct
UserProfile ==
    [id |-> "int", client_id |-> "ClientID", email |-> "string",
     first_name |-> "string", last_name |-> "string", timezone |-> "string",
     units |-> "string", weight |-> "*float64", height |-> "*int",
     image_id |-> "*int"]

\* type HabitTrackerResponse struct, its fields other than Trackings
HabitTrackerResponse ==
    [previous_duration |-> "map", next_duration |-> "map",
     current_duration |-> "map", is_previous |-> "bool"]

\* json decoding of a body into &TokenResponse{}
DecodeTokenResponse(body) ==
    IF ~body.valid THEN [val |-> Zero(TokenResponse), err |-> SyntaxError]
    ELSE DecodeStruct(TokenResponse, body.obj)

ZeroUserProfileResponse == [user |-> Zero(UserProfile)]

InUser(u) == [val |-> [user |-> u.val], err |-> u.err]

\* json decoding of a body into a UserProfileResponse
DecodeUserProfileResponse(body) ==
    IF ~body.valid THEN [val |-> ZeroUserProfileResponse, err |-> SyntaxError]
    ELSE IF ~body.hasUser THEN [val |-> ZeroUserProfileResponse, err |-> NoError]
    ELSE InUser(DecodeStruct(UserProfile, body.user))

ZeroHabitTrackerResponse == [trackings |-> <<>>] @@ Zero(HabitTrackerResponse)

\* the HabitTrackerResponse and the error from its trackings' results and
\* its other fields' result
WithTrackings(items, rest) ==
    [val |-> [trackings |-> [i \in 1..Len(items) |-> items[i].val]] @@ rest.val,
     err |-> IF \A e \in {rest.err} \cup {items[i].err : i \in 1..Len(items)} : e = NoError
             THEN NoError
             ELSE CHOOSE e \in {rest.err} \cup {items[i].err : i \in 1..Len(items)} :
                     e # NoError]

\* json decoding of the object r into a HabitTrackerResponse
DecodeHabitTrackerResponse(r) ==
    WithTrackings([i \in 1..Len(r.trackings) |-> DecodeTracking(r.trackings[i])],
                  DecodeStruct(HabitTrackerResponse, r.fields))

ZeroWrapper == [response |-> ZeroHabitTrackerResponse]

InResponse(r) == [val |-> [response |-> r.val], err |-> r.err]

\* json decoding of a body into GetHabitTrackers' wrapper struct
DecodeWrapper(body) ==
    IF ~body.valid THEN [val |-> ZeroWrapper, err |-> SyntaxError]
    ELSE IF ~body.hasResponse THEN [val |-> ZeroWrapper, err |-> NoError]
    ELSE InResponse(DecodeHabitTrackerResponse(body.response))

----------------------------------------------------------------------------
(* The three operations.  c is the client, x the outcome of the HTTP       *)
(* exchange the call meets.                                                *)

LoginRequest(email, password) ==
    [R EXCEPT !.method = "POST", !.path = "/oauth/token",
              !.body = [grant_type |-> "password", username |-> email,
                        password |-> password]]

\* a plausible slip: the request is sent again after a transport failure
Login_Retry(c, email, password, x) ==
    Return(c,
           IF x.kind = "error"
           THEN <<Outbound(c, LoginRequest(email, password)),
                  Outbound(c, LoginRequest(email, password))>>
           ELSE <<Outbound(c, LoginRequest(email, password))>>,
           Execute(x, Zero(TokenResponse), DecodeTokenResponse(x.body)))

\* a plausible slip: the credentials under each other's key
Login_Swapped(c, email, password, x) ==
    Return(c, <<Outbound(c, LoginRequest(password, email))>>,
           Execute(x, Zero(TokenResponse), DecodeTokenResponse(x.body)))

\* func (c *Client) Login(email, password string) (*TokenResponse, error)
Login(c, email, password, x) ==
    Return(c, <<Outbound(c, LoginRequest(email, password))>>,
           Execute(x, Zero(TokenResponse), DecodeTokenResponse(x.body)))

UserProfileRequest(authToken, userID) ==
    [R EXCEPT !.method = "GET", !.path = "/users/" \o userID,
              !.headers = ("Authorization" :> ("Bearer " \o authToken))]

\* c with a header set on the client itself (resty's Client.SetHeader)
WithClientHeader(c, k, v) == [c EXCEPT !.headers = (k :> v) @@ @]

\* a plausible slip: SetHeader on the client (c.httpClient.SetHeader), not on
\* the request, which keeps the token in the client
GetUserProfile_StoresToken(c, authToken, userID, x) ==
    Return(WithClientHeader(c, "Authorization", "Bearer " \o authToken),
           <<Outbound(WithClientHeader(c, "Authorization", "Bearer " \o authToken),
                      [R EXCEPT !.method = "GET", !.path = "/users/" \o userID])>>,
           Execute(x, ZeroUserProfileResponse, DecodeUserProfileResponse(x.body)))

\* func (c *Client) GetUserProfile(authToken string, userID string)
\*     (*UserProfileResponse, error)
GetUserProfile(c, authToken, userID, x) ==
    Return(c, <<Outbound(c, UserProfileRequest(authToken, userID))>>,
           Execute(x, ZeroUserProfileResponse, DecodeUserProfileResponse(x.body)))

HabitTrackersRequest(authToken, clientID, date) ==
    [R EXCEPT !.method = "GET",
              !.path = "/clients/" \o clientID \o "/habit_trackers",
              !.query = ("date" :> date),
              !.headers = ("Authorization" :> ("Bearer " \o authToken))]

\* &wrapper.Response: the wrapper's inner object
Response(r) == [result |-> r.result.response, err |-> r.err]

\* a plausible slip: the header built from the wrong argument
GetHabitTrackers_WrongToken(c, authToken, clientID, date, x) ==
    Return(c, <<Outbound(c, HabitTrackersRequest(clientID, clientID, date))>>,
           Response(Execute(x, ZeroWrapper, DecodeWrapper(x.body))))

\* a plausible slip: the body decoded into a HabitTrackerResponse without
\* the wrapper, where the key "response" matches no field
GetHabitTrackers_NoWrapper(c, authToken, clientID, date, x) ==
    Return(c, <<Outbound(c, HabitTrackersRequest(authToken, clientID, date))>>,
           Execute(x, ZeroHabitTrackerResponse,
                   [val |-> ZeroHabitTrackerResponse,
                    err |-> IF x.body.valid THEN NoError ELSE SyntaxError]))

\* func (c *Client) GetHabitTrackers(authToken string, clientID string,
\*     date string) (*HabitTrackerResponse, error)
GetHabitTrackers(c, authToken, clientID, date, x) ==
    Return(c, <<Outbound(c, HabitTrackersRequest(authToken, clientID, date))>>,
           Response(Execute(x, ZeroWrapper, DecodeWrapper(x.body))))

----------------------------------------------------------------------------
(* The HTTP exchanges the model lets a call meet. *)

TransportErrors == {"dial tcp: i/o timeout", "no such host"}
Statuses == {200, 401, 500}

NoBody == [valid |-> FALSE]

Outcomes(bodies) ==
    {[kind |-> "error", err |-> e, status |-> 0, body |-> NoBody] : e \in TransportErrors}
        \cup {[kind |-> "response", err |-> NoError, status |-> st, body |-> b] :
                 st \in Statuses, b \in bodies}

LoginUserIDs ==
    {Missing, Str("1"), IntLit(1), IntLit(12345), Num(FALSE, Pow53Plus(1), <<>>),
     Bool("true"), Null}

LoginBodies ==
    {[valid |-> FALSE, obj |-> EmptyObject(TokenResponse)]}
        \cup {[valid |-> TRUE,
               obj |-> [access_token |-> a, token_type |-> t, user_id |-> u]] :
                 a \in {Missing, Str("tokA"), Str(" tok B ")},
                 t \in {Missing, Str("bearer")},
                 u \in LoginUserIDs}

\* a "user" object with the given id, client_id and email
User(id, clientID, email) ==
    [k \in DOMAIN UserProfile |->
        CASE k = "id" -> id
          [] k = "client_id" -> clientID
          [] k = "email" -> email
          [] k \in {"first_name", "last_name", "timezone", "units"} ->
                 IF email = Missing THEN Missing ELSE Str(k)
          [] OTHER -> Missing]

ProfileBodies ==
    {[valid |-> FALSE, hasUser |-> FALSE, user |-> EmptyObject(UserProfile)],
     [valid |-> TRUE, hasUser |-> FALSE, user |-> EmptyObject(UserProfile)]}
        \cup {[valid |-> TRUE, hasUser |-> TRUE, user |-> User(i, c, e)] :
                 i \in {Missing, IntLit(1), Str("1")},
                 c \in {Missing, IntLit(77), Str("77"), IntLit(1), Arr("[77]")},
                 e \in {Missing, Str("a@b.com")}}

HabitEntries ==
    {Entry(1, EmptyMap),
     Entry(2, ("steps" :> Null)),
     Entry(3, ("steps" :> IntLit(5000)) @@ ("weight" :> Num(FALSE, <<7, 0>>, <<5>>))),
     Entry(4, ("weight" :> Str("heavy")))}

RECURSIVE SeqsUpTo(_, _)
SeqsUpTo(S, n) ==
    IF n = 0 THEN {<<>>}
    ELSE LET shorter == SeqsUpTo(S, n - 1)
         IN shorter \cup {Append(q, e) : q \in shorter, e \in S}

HabitResponses ==
    {[trackings |-> t,
      fields |-> [previous_duration |-> d, next_duration |-> d,
                  current_duration |-> d, is_previous |-> p]] :
        t \in SeqsUpTo(HabitEntries, MaxTrackings),
        d \in {Missing, Obj("{\"days\":7}")},
        p \in {Missing, Bool("true"), Bool("false")}}

EmptyHabitResponse == [trackings |-> <<>>, fields |-> EmptyObject(HabitTrackerResponse)]

HabitBodies ==
    {[valid |-> FALSE, hasResponse |-> FALSE, response |-> EmptyHabitResponse],
     [valid |-> TRUE, hasResponse |-> FALSE, response |-> EmptyHabitResponse]}
        \cup {[valid |-> TRUE, hasResponse |-> TRUE, response |-> r] : r \in HabitResponses}

\* what callers pass
Emails == {"a@b.com", " A@b.com "}
Passwords == {"secret", " s e c "}
Tokens == {"tokA", " tok B "}
UserIDs == {"1", "12345"}
ClientIDs == {"77", "1"}
Dates == {"Feb 1, 2026", "2026-02-01"}

----------------------------------------------------------------------------
(* Spec: any caller, one Client.  The caller invokes an operation with     *)
(* arguments of its choice; the operation runs to its return.              *)

NoCall == [op |-> "none", phase |-> "none"]
NoExchange == [kind |-> "none", err |-> NoError, status |-> 0, body |-> NoBody]
NoReturn == [nil |-> TRUE, err |-> NoError]

InitAPI ==
    /\ client = NewClient
    /\ call = NoCall
    /\ exch = NoExchange
    /\ wire = <<>>
    /\ ret = NoReturn
    /\ seen = {}

InitMain ==
    /\ pc = "start"
    /\ env = [email |-> "", password |-> "", date |-> ""]
    /\ token = Zero(TokenResponse)
    /\ profile = ZeroUserProfileResponse
    /\ sent = <<>>
    /\ exitCode = -1

Init == InitAPI /\ InitMain /\ InitClientID /\ IdleTracking

Invoke(c) ==
    /\ call.phase # "running"
    /\ call' = c
    /\ exch' = NoExchange
    /\ wire' = <<>>
    /\ ret' = NoReturn
    /\ UNCHANGED <<client, seen, mainVars, cidVars, trkVars>>

\* the caller calls one of the three operations
CallerInvokes ==
    \/ \E email \in Emails, password \in Passwords :
          Invoke([op |-> "Login", phase |-> "running", email |-> email,
                  password |-> password])
    \/ \E authToken \in Tokens, userID \in UserIDs :
          Invoke([op |-> "GetUserProfile", phase |-> "running",
                  authToken |-> authToken, userID |-> userID])
    \/ \E authToken \in Tokens, clientID \in ClientIDs, date \in Dates :
          Invoke([op |-> "GetHabitTrackers", phase |-> "running",
                  authToken |-> authToken, clientID |-> clientID, date |-> date])

\* the operation has met exchange x and returned r
Returned(x, r) ==
    /\ call' = [call EXCEPT !.phase = "returned"]
    /\ exch' = x
    /\ client' = r.client
    /\ wire' = r.reqs
    /\ ret' = [nil |-> r.nil, res |-> r.res, err |-> r.err]
    /\ seen' = seen \cup (IF call.op = "Login"
                          THEN (IF r.nil THEN {} ELSE {r.res.access_token.str})
                          ELSE {call.authToken})
    /\ UNCHANGED <<mainVars, cidVars, trkVars>>

RunLogin ==
    /\ call.op = "Login" /\ call.phase = "running"
    /\ \E x \in Outcomes(LoginBodies) :
          Returned(x, Login(client, call.email, call.password, x))

RunGetUserProfile ==
    /\ call.op = "GetUserProfile" /\ call.phase = "running"
    /\ \E x \in Outcomes(ProfileBodies) :
          Returned(x, GetUserProfile(client, call.authToken, call.userID, x))

RunGetHabitTrackers ==
    /\ call.op = "GetHabitTrackers" /\ call.phase = "running"
    /\ \E x \in Outcomes(HabitBodies) :
          Returned(x, GetHabitTrackers(client, call.authToken, call.clientID,
                                       call.date, x))

Next == CallerInvokes \/ RunLogin \/ RunGetUserProfile \/ RunGetHabitTrackers

Spec == Init /\ [][Next]_vars

SpecClientID == Init /\ [][Unmarshal]_vars

InitEntry == InitAPI /\ InitMain /\ InitClientID /\ InitTracking

SpecTracking == InitEntry /\ [][DecodeEntry]_vars

----------------------------------------------------------------------------
(* SpecMain: the example program.  It runs with the environment it was     *)
(* started in and meets one HTTP exchange per request.                     *)

EnvEmails == {"", "a@b.com"}
EnvPasswords == {"", "secret"}
EnvDates == {"", "Feb 1, 2026"}
\* time.Now().Format("Jan 2, 2006")
Todays == {"Nov 5, 2026", "Dec 31, 2026"}

MainLoginBodies ==
    {b \in LoginBodies :
        \/ ~b.valid
        \/ b.obj = EmptyObject(TokenResponse)
        \/ /\ b.obj.access_token = Str("tokA")
           /\ b.obj.token_type = Str("bearer")
           /\ b.obj.user_id \in {IntLit(1), Str("1"), Bool("true")}}

MainProfileBodies ==
    {b \in ProfileBodies :
        \/ ~b.hasUser
        \/ /\ b.user.id = IntLit(1)
           /\ b.user.email = Str("a@b.com")
           /\ b.user.client_id \in {IntLit(77), Str("77"), Arr("[77]")}}

MainHabitBodies ==
    {b \in HabitBodies :
        \/ ~b.hasResponse
        \/ /\ Len(b.response.trackings) <= 1
           /\ b.response.fields.is_previous # Missing
           /\ b.response.fields.current_duration # Missing}

InitProgram ==
    /\ InitAPI /\ InitClientID /\ IdleTracking
    /\ pc = "start"
    /\ env \in [email : EnvEmails, password : EnvPasswords, date : EnvDates]
    /\ token = Zero(TokenResponse)
    /\ profile = ZeroUserProfileResponse
    /\ sent = <<>>
    /\ exitCode = -1

\* os.Exit(1)
Exit1 == pc' = "exited" /\ exitCode' = 1

\* the requests of one call, each with the exchange it met
Exchanged(reqs, x) == [i \in 1..Len(reqs) |-> [req |-> reqs[i], exch |-> x]]

\* main, to NewClient: the credentials are read and checked
MainStart ==
    /\ pc = "start"
    /\ IF env.email = "" \/ env.password = ""
       THEN Exit1 /\ UNCHANGED client
       ELSE pc' = "login" /\ client' = NewClient /\ UNCHANGED exitCode
    /\ UNCHANGED <<call, exch, wire, ret, seen, env, token, profile, sent, cidVars,
                   trkVars>>

\* main has called an operation that met x and returned r
MainCalled(x, r) ==
    /\ client' = r.client
    /\ sent' = sent \o Exchanged(r.reqs, x)
    /\ UNCHANGED <<call, exch, wire, ret, seen, env, cidVars, trkVars>>

\* 1. Authenticate
MainLogin ==
    /\ pc = "login"
    /\ \E x \in Outcomes(MainLoginBodies) :
       \E r \in {Login(client, env.email, env.password, x)} :
          /\ MainCalled(x, r)
          /\ IF r.err # NoError
             THEN Exit1 /\ UNCHANGED token
             ELSE pc' = "profile" /\ token' = r.res /\ UNCHANGED exitCode
    /\ UNCHANGED profile

\* 2. Get user profile to resolve client ID
MainGetUserProfile ==
    /\ pc = "profile"
    /\ \E x \in Outcomes(MainProfileBodies) :
       \E r \in {GetUserProfile(client, token.access_token.str, token.user_id.str, x)} :
          /\ MainCalled(x, r)
          /\ IF r.err # NoError
             THEN Exit1 /\ UNCHANGED profile
             ELSE pc' = "habits" /\ profile' = r.res /\ UNCHANGED exitCode
    /\ UNCHANGED token

\* 3. Fetch habit trackers, for TRUECOACH_DATE or today, and print them
MainGetHabitTrackers ==
    /\ pc = "habits"
    /\ \E x \in Outcomes(MainHabitBodies),
          date \in (IF env.date = "" THEN Todays ELSE {env.date}) :
       \E r \in {GetHabitTrackers(client, token.access_token.str,
                                  profile.user.client_id.str, date, x)} :
          /\ MainCalled(x, r)
          /\ IF r.err # NoError
             THEN Exit1
             ELSE pc' = "exited" /\ exitCode' = 0
    /\ UNCHANGED <<token, profile>>

NextMain == MainStart \/ MainLogin \/ MainGetUserProfile \/ MainGetHabitTrackers

SpecMain == InitProgram /\ [][NextMain]_vars

----------------------------------------------------------------------------
(* The claims. *)

HasReturned == call.phase = "returned"
Authenticated == call.op \in {"GetUserProfile", "GetHabitTrackers"}

\* the result the body of a 2xx response decodes to, per operation
DecodedResult(op, body) ==
    CASE op = "Login" -> DecodeTokenResponse(body).val
      [] op = "GetUserProfile" -> DecodeUserProfileResponse(body).val
      [] op = "GetHabitTrackers" -> DecodeWrapper(body).val.response

ZeroResult(op) ==
    CASE op = "Login" -> Zero(TokenResponse)
      [] op = "GetUserProfile" -> ZeroUserProfileResponse
      [] op = "GetHabitTrackers" -> ZeroHabitTrackerResponse

\* C1: every operation returns either an error and no result, or no error
\* and a result populated from the body of a 2xx response; never a nil
\* error with a default (zero-valued) result.
C1_ErrorOrPopulatedResult ==
    HasReturned =>
        \/ ret.err # NoError /\ ret.nil
        \/ /\ ret.err = NoError /\ ~ret.nil
           /\ exch.kind = "response" /\ IsSuccess(exch.status) /\ exch.body.valid
           /\ ret.res = DecodedResult(call.op, exch.body)
           /\ ret.res # ZeroResult(call.op)

\* C2: a call issues exactly one request; a transport failure is returned
\* as it is, with a nil result, and nothing is sent a second time.
C2_OneRequestPerCall ==
    /\ call.phase = "running" => wire = <<>>
    /\ HasReturned =>
          /\ Len(wire) = 1
          /\ exch.kind = "error" => ret.err = exch.err /\ ret.nil

C2_Witness ==
    /\ HasReturned /\ call.op = "GetHabitTrackers"
    /\ exch.kind = "error" /\ ret.err = "no such host" /\ ret.nil
    /\ Len(wire) = 1

\* C3: the request of GetUserProfile and of GetHabitTrackers carries the
\* header Authorization: "Bearer " followed by the token of that call,
\* unmodified.
C3_BearerHeader ==
    HasReturned /\ Authenticated =>
        \A i \in 1..Len(wire) :
            /\ "Authorization" \in DOMAIN wire[i].headers
            /\ wire[i].headers["Authorization"] = "Bearer " \o call.authToken

C3_Witness ==
    /\ HasReturned /\ call.op = "GetHabitTrackers"
    /\ call.authToken = " tok B " /\ "tokA" \in seen
    /\ Len(wire) = 1
    /\ wire[1].headers["Authorization"] = "Bearer  tok B "

StaticHeaders ==
    ("User-Agent" :> "okhttp/4.12.0") @@ ("Accept" :> "application/json")
        @@ ("Content-Type" :> "application/json; charset=utf-8")
        @@ ("Role" :> "Client") @@ ("Accept-Encoding" :> "gzip")

C5_IntegerDecodesToItsText ==
    IsInteger(cidData) =>
        /\ cidErr = NoError
        /\ cid = LiteralText(cidData)
        /\ cid = UnmarshalJSON("", Str(LiteralText(cidData))).c

\* C6: a boolean, array, object or null is rejected with an error naming
\* its type and the target keeps its value; only strings and numbers are
\* accepted.
C6_OtherKindsRejected ==
    [][/\ cidData'.kind \in {"bool", "array", "object", "null"} =>
            /\ cid' = cid
            /\ cidErr' = "user_id: expected string or number, got "
                            \o (CASE cidData'.kind = "bool" -> "bool"
                                  [] cidData'.kind = "array" -> "[]interface {}"
                                  [] cidData'.kind = "object" -> "map[string]interface {}"
                                  [] cidData'.kind = "null" -> "<nil>")
       /\ (cidData'.kind # "none" /\ cidErr' = NoError) =>
            cidData'.kind \in {"string", "number"}]_vars

C6_Witness ==
    /\ cidData.kind = "null"
    /\ cidErr = "user_id: expected string or number, got <nil>"
    /\ cid = "12345"

\* C7: Login posts to /oauth/token a body of exactly grant_type =
\* "password", username = the email and password = the password.
C7_LoginRequestShape ==
    HasReturned /\ call.op = "Login" =>
        /\ Len(wire) >= 1
        /\ \A i \in 1..Len(wire) :
              /\ wire[i].method = "POST"
              /\ wire[i].url = "https://api.truecoach.co/api/oauth/token"
              /\ wire[i].body = [grant_type |-> "password", username |-> call.email,
                                 password |-> call.password]

C7_Witness ==
    /\ HasReturned /\ call.op = "Login"
    /\ call.email = " A@b.com " /\ call.password = "secret"
    /\ Len(wire) = 1
    /\ wire[1].body.username = " A@b.com " /\ wire[1].body.password = "secret"
    /\ DOMAIN wire[1].body = {"grant_type", "username", "password"}

\* the Go value of a wire value that decodes without loss
Plain(w) ==
    CASE w.kind = "number" -> NumVal([neg |-> w.neg, mag |-> w.digits, frac |-> w.frac])
      [] w.kind \in {"string", "bool", "object"} -> StrVal(w.text)

\* C8: from a 2xx body {"response": R}, a successful GetHabitTrackers
\* returns the inner object decoded from R: its trackings in R's order and
\* number, its is_previous flag and its three durations.
C8_InnerObjectReturned ==
    (/\ HasReturned /\ call.op = "GetHabitTrackers"
     /\ exch.kind = "response" /\ IsSuccess(exch.status)
     /\ exch.body.valid /\ exch.body.hasResponse
     /\ ret.err = NoError) =>
        LET inner == exch.body.response
        IN /\ ~ret.nil
           /\ DOMAIN ret.res = {"trackings", "previous_duration", "next_duration",
                                "current_duration", "is_previous"}
           /\ Len(ret.res.trackings) = Len(inner.trackings)
           /\ \A i \in 1..Len(inner.trackings) :
                 ret.res.trackings[i].id = Plain(inner.trackings[i].id)
           /\ \A k \in DOMAIN inner.fields :
                 inner.fields[k] # Missing => ret.res[k] = Plain(inner.fields[k])

C8_Witness ==
    /\ HasReturned /\ call.op = "GetHabitTrackers"
    /\ exch.kind = "response" /\ exch.status = 200
    /\ exch.body.valid /\ exch.body.hasResponse
    /\ ret.err = NoError /\ ~ret.nil
    /\ Len(ret.res.trackings) = 2
    /\ ret.res.trackings[1].id.mag = <<3>> /\ ret.res.trackings[2].id.mag = <<1>>
    /\ ret.res.is_previous = BoolVal("true")

\* C9: each optional metric of a decoded entry is absent when its key is
\* missing or null and present with its wire value otherwise (zero and the
\* empty string included), whatever the other metrics are.
C9_OptionalMetrics ==
    (trkErr = NoError) =>
        \A m \in Metrics :
            IF trkWire[m].kind \in {"missing", "null"}
            THEN ~trk[m].set
            ELSE trk[m].set /\ trk[m] = Plain(trkWire[m])

C9_Witness ==
    /\ trkErr = NoError
    /\ trkWire["steps"] = IntLit(0) /\ trkWire["notes"] = Str("")
    /\ trkWire["weight"] = Missing
    /\ trk["steps"].set /\ trk["steps"].mag = <<0>>
    /\ trk["notes"].set /\ trk["notes"].str = ""
    /\ ~trk["weight"].set

\* a Login exchange that succeeded: a 2xx response whose body carries a token
Succeeded(e) ==
    e.exch.kind = "response" /\ IsSuccess(e.exch.status) /\ e.exch.body.valid

\* C10: the example program issues nothing with an empty email or
\* password, calls GetUserProfile only after Login succeeded, with Login's
\* token and user ID, calls GetHabitTrackers only after GetUserProfile
\* succeeded, with Login's token and the profile's client ID, and exits
\* with status 1, issuing nothing more, once a step failed.
C10_SequentialAndStopsOnFailure ==
    /\ (env.email = "" \/ env.password = "") => sent = <<>>
    /\ Len(sent) <= 3
    /\ Len(sent) >= 1 => sent[1].req.url = apiBaseURL \o "/oauth/token"
    /\ Len(sent) >= 2 =>
          /\ Succeeded(sent[1])
          /\ sent[2].req.url = apiBaseURL \o "/users/" \o token.user_id.str
          /\ sent[2].req.headers["Authorization"] = "Bearer " \o token.access_token.str
          /\ token = DecodeTokenResponse(sent[1].exch.body).val
    /\ Len(sent) >= 3 =>
          /\ Succeeded(sent[2])
          /\ sent[3].req.url = apiBaseURL \o "/clients/"
                                  \o profile.user.client_id.str \o "/habit_trackers"
          /\ sent[3].req.headers["Authorization"] = "Bearer " \o token.access_token.str
          /\ profile = DecodeUserProfileResponse(sent[2].exch.body).val
    /\ \A i \in 1..Len(sent) :
          ~Succeeded(sent[i]) => i = Len(sent) /\ pc = "exited" /\ exitCode = 1

====
